---- MODULE Spec2Model ----
(***************************************************************************)
(* Model of the Fluke DAQ datasource plugin (package main): the tag        *)
(* registry (createTagMap, GetTagMapNames, ReadItems), the device control  *)
(* channel (StartScanning, StopScanning) and the recording engine          *)
(* (FlukeDatasource.StartRecord, its background goroutine, StopRecord and  *)
(* Stop).  Go scheduling is modelled by interleaving: every atomic         *)
(* operation, channel operation and blocking call of the source is one     *)
(* action.                                                                 *)
(***************************************************************************)
EXTENDS Integers, Sequences, FiniteSets, TLC

(***************************************************************************)
(* Bounds of the model.                                                    *)
(***************************************************************************)
NumCallers == 2      \* goroutines of the host that call the public methods
MaxCalls == 4        \* public method invocations in one behaviour
MaxSessions == 2     \* StartRecord calls that get as far as the device
MaxTags == 4         \* length of the raw identifier list in the registry runs

Callers == 1..NumCallers
Sessions == 1..MaxSessions

(***************************************************************************)
(* Values an opc.Item can carry (Item.Value is an interface{}).            *)
(* finite = FALSE stands for NaN and the infinities, which json.Marshal    *)
(* rejects.                                                                *)
(***************************************************************************)
F32 == [kind |-> "float32", val |-> 1, finite |-> TRUE]
F64 == [kind |-> "float64", val |-> 2, finite |-> TRUE]
NaN64 == [kind |-> "float64", val |-> 0, finite |-> FALSE]
Other == [kind |-> "string", val |-> 0, finite |-> TRUE]
Items == {F32, F64, NaN64, Other}

(***************************************************************************)
(* sort.Ints over the keys of a map: the keys in ascending order.          *)
(***************************************************************************)
RECURSIVE SortInts(_)
SortInts(S) ==
    IF S = {} THEN <<>>
    ELSE LET m == CHOOSE x \in S : \A y \in S : x <= y
         IN <<m>> \o SortInts(S \ {m})

(***************************************************************************)
(* createTagMap: for every index of the configured map, a Tag with the     *)
(* configured name and type and the raw identifier tags[i].  Go slices are *)
(* 0-based, so tags[i] is the (i+1)-th element; an index outside the slice *)
(* is a run-time panic.                                                    *)
(***************************************************************************)
createTagMap(tags, cfgTagMap) ==
    IF \E i \in DOMAIN cfgTagMap : i < 0 \/ i >= Len(tags)
    THEN [panic |-> TRUE, tagMap |-> <<>>]
    ELSE [panic |-> FALSE,
          tagMap |-> [i \in DOMAIN cfgTagMap |->
                        [name |-> cfgTagMap[i].Tag,
                         tag |-> tags[i + 1],
                         tagType |-> cfgTagMap[i].Type]]]

(***************************************************************************)
(* The configuration and registry the recording engine runs with: four raw *)
(* identifiers, of which index 0 (scan control), 1 and 3 are configured.   *)
(***************************************************************************)
Tags == <<"Scan.Item", "Ch101.Item", "Ch102.Item", "Ch103.Item">>
FlukeTags ==
    (0 :> [Tag |-> "Scan", Type |-> "ignore"]) @@
    (1 :> [Tag |-> "A", Type |-> "temperature"]) @@
    (3 :> [Tag |-> "B", Type |-> "ignore"])
TagMap == createTagMap(Tags, FlukeTags).tagMap

(***************************************************************************)
(* cfg.Config as far as StartRecord and the loop read it.                  *)
(***************************************************************************)
Configs ==
    {[Influx |-> FALSE, InfluxOrgName |-> "", InfluxBucketName |-> ""]} \cup
    [Influx : {TRUE}, InfluxOrgName : {"", "org"}, InfluxBucketName : {"", "bucket"}]

VARIABLES
    config,      \* e.config
    recording,   \* e.recording, used atomically
    quitClosed,  \* e.quitChan has been closed
    wg,          \* counter of the embedded sync.WaitGroup
    panicked,    \* a goroutine has panicked: the process is gone
    scanning,    \* last value written to the control channel TagMap[0].tag
    pc,          \* per caller: where it is in the public method it runs
    ret,         \* per caller: what its last call returned ("none" during a call)
    ops,         \* number of StartRecord / StopRecord / Stop invocations
    nsess,       \* number of background goroutines started so far
    loop,        \* per session: the goroutine's position, ticker and locals
    frameChan,   \* per session: "none", "open" or "closed"
    stopWrites,  \* per session: StopScanning calls made by its goroutine
    flushes,     \* per session: writeAPI.Flush calls made by its goroutine
    sinkIds,     \* "id" tags of all points handed to writeAPI.WritePoint
    reg,         \* state of a registry run (createTagMap / GetTagMapNames)
    tk,          \* state of a timed run of one session's ticker and loop
    sig          \* which session the flag, and each pending stop signal, stands for

vars == <<config, recording, quitClosed, wg, panicked, scanning, pc, ret, ops,
          nsess, loop, frameChan, stopWrites, flushes, sinkIds, reg, tk, sig>>

engineVars == <<config, recording, quitClosed, wg, panicked, scanning, pc, ret,
                ops, nsess, loop, frameChan, stopWrites, flushes, sinkIds, sig>>

\* sig.cur: the session whose StartRecord set e.recording to 1 (k > 0: the
\* one of goroutine k; 0 - c: the one caller c is about to start; 0: the flag
\* is 0).  sig.target[c]: the session that was Recording when caller c's
\* StopRecord passed its compare-and-swap, while its signal is not yet sent.
NoSig == [cur |-> 0, target |-> [c \in Callers |-> 0]]

NoLoop == [pc |-> "none", tstop |-> FALSE, b |-> <<>>]
RegIdle == [pc |-> "off", tags |-> <<>>, cfg |-> <<>>, tagMap |-> <<>>,
            names |-> <<>>, read |-> <<>>, readings |-> <<>>, data |-> <<>>,
            points |-> <<>>, m |-> [err |-> FALSE, b |-> <<>>]]

EngineInit ==
    /\ config \in Configs
    /\ recording = 0
    /\ quitClosed = FALSE
    /\ wg = 0
    /\ panicked = FALSE
    /\ scanning = FALSE
    /\ pc = [c \in Callers |-> "idle"]
    /\ ret = [c \in Callers |-> "none"]
    /\ ops = [start |-> 0, stoprec |-> 0, stop |-> 0]
    /\ nsess = 0
    /\ loop = [s \in Sessions |-> NoLoop]
    /\ frameChan = [s \in Sessions |-> "none"]
    /\ stopWrites = [s \in Sessions |-> 0]
    /\ flushes = [s \in Sessions |-> 0]
    /\ sinkIds = {}
    /\ sig = NoSig

TkOff == [pc |-> "off", now |-> 0, fire |-> 0, buf |-> FALSE, wake |-> 0,
          began |-> 0, n |-> 0, prev |-> 0, last |-> 0]

Init == EngineInit /\ reg = RegIdle /\ tk = TkOff

(***************************************************************************)
(* Device controller.  d.Write on the control channel either fails and     *)
(* leaves the device as it was, or succeeds and sets it.                   *)
(***************************************************************************)
StartScanning(ok) == scanning' = IF ok THEN TRUE ELSE scanning

StopScanning(ok) == scanning' = IF ok THEN FALSE ELSE scanning

(***************************************************************************)
(* GetTagMapNames and ReadItems: the keys of TagMap are collected, sorted, *)
(* and every key other than 0 contributes one element, in that order.  The *)
(* result slice is made with capacity len(idxs)-1: make panics when that   *)
(* is negative, that is for an empty TagMap.  read[i] is what d.ReadItem   *)
(* returns for channel i.                                                  *)
(***************************************************************************)
DataIdxs(tagMap) == DOMAIN tagMap \ {0}

SortedKeys(tagMap) == SortInts(DOMAIN tagMap)

DataKeys(tagMap) == SelectSeq(SortedKeys(tagMap), LAMBDA i : i # 0)

GetTagMapNames(tagMap) ==
    LET idxs == DataKeys(tagMap)
    IN IF Cardinality(DOMAIN tagMap) - 1 < 0
       THEN [panic |-> TRUE, names |-> <<>>]
       ELSE [panic |-> FALSE,
             names |-> [k \in 1..Len(idxs) |-> tagMap[idxs[k]].name]]

ReadItems(tagMap, read) ==
    LET idxs == DataKeys(tagMap)
    IN IF Cardinality(DOMAIN tagMap) - 1 < 0
       THEN [panic |-> TRUE, readings |-> <<>>]
       ELSE [panic |-> FALSE,
             readings |-> [k \in 1..Len(idxs) |->
                             [Item |-> read[idxs[k]],
                              Name |-> tagMap[idxs[k]].name,
                              Type |-> tagMap[idxs[k]].tagType]]]

(***************************************************************************)
(* The type switch of the tick branch: float64 and float32 values are kept *)
(* (float32 converted to float64), anything else is skipped.               *)
(***************************************************************************)
\* a type switch without the float32 case
IsNumericFloat64Only(item) == item.kind = "float64"

IsNumeric(item) == item.kind \in {"float64", "float32"}

ToFloat64(item) == [val |-> item.val, finite |-> item.finite]

BuildData(readings) ==
    LET kept == SelectSeq(readings, LAMBDA r : IsNumeric(r.Item))
    IN [k \in 1..Len(kept) |->
          [Name |-> kept[k].Name, Value |-> ToFloat64(kept[k].Item)]]

(***************************************************************************)
(* A point is written for a kept reading when Influx is configured and the *)
(* reading's type is not "ignore".                                         *)
(***************************************************************************)
\* a tick branch that forgets the "ignore" test
WritesPointAnyType(cfg, reading) == cfg.Influx

WritesPoint(cfg, reading) == cfg.Influx /\ reading.Type # "ignore"

BuildPoints(cfg, readings) ==
    LET kept == SelectSeq(readings,
                          LAMBDA r : IsNumeric(r.Item) /\ WritesPoint(cfg, r))
    IN [k \in 1..Len(kept) |->
          [measurement |-> kept[k].Type,
           id |-> kept[k].Name,
           field |-> ToFloat64(kept[k].Item)]]

(***************************************************************************)
(* json.Marshal(&df): an error for a value that is not finite, else the    *)
(* object {"data": [{"name": ..., "value": ...}, ...]}.                    *)
(***************************************************************************)
Marshal(data) ==
    IF \E k \in 1..Len(data) : ~data[k].Value.finite
    THEN [err |-> TRUE, b |-> <<>>]
    ELSE [err |-> FALSE,
          b |-> [k \in 1..Len(data) |->
                   [name |-> data[k].Name, value |-> data[k].Value.val]]]

(***************************************************************************)
(* What d.ReadItem returns for the data channels of TagMap in the engine   *)
(* runs: a float64 and a float32, a non-numeric value beside a float64,    *)
(* and a value json.Marshal rejects.  (The tick runs below take every      *)
(* assignment of Items.)                                                   *)
(***************************************************************************)
DeviceReads ==
    {(1 :> F64) @@ (3 :> F32),
     (1 :> Other) @@ (3 :> F64),
     (1 :> NaN64) @@ (3 :> F64)}

(***************************************************************************)
(* atomic.LoadInt32 and atomic.CompareAndSwapInt32 on e.recording.         *)
(***************************************************************************)
\* a load that misses the store of the compare-and-swap
LoadRecordingStale == IF recording = 1 THEN 0 ELSE recording

LoadRecording == recording

\* a swap that does not compare
CompareAndSwapBlind(old) == TRUE

CompareAndSwapOk(old) == recording = old

Invoked == ops.start + ops.stoprec + ops.stop

InStart(c) == pc[c] \in {"start_scan", "start_sink", "start_cas", "start_go"}

SlotFree == nsess + Cardinality({c \in Callers : InStart(c)}) < MaxSessions

Return(c, r) ==
    /\ pc' = [pc EXCEPT ![c] = "idle"]
    /\ ret' = [ret EXCEPT ![c] = r]

Goto(c, l) ==
    /\ pc' = [pc EXCEPT ![c] = l]
    /\ ret' = [ret EXCEPT ![c] = "none"]

(***************************************************************************)
(* StartRecord, statement by statement.                                    *)
(***************************************************************************)
StartRecord_Load(c) ==
    /\ ~panicked /\ pc[c] = "idle" /\ Invoked < MaxCalls
    /\ ops' = [ops EXCEPT !.start = @ + 1]
    /\ IF LoadRecording = 1
       THEN Return(c, "ErrAlreadyRecording")
       ELSE SlotFree /\ Goto(c, "start_scan")
    /\ UNCHANGED <<config, recording, quitClosed, wg, panicked, scanning,
                   nsess, loop, frameChan, stopWrites, flushes, sinkIds, reg, tk, sig>>

\* e.connection.StartScanning(), then time.NewTicker and make(chan)
StartRecord_Scan(c) ==
    /\ ~panicked /\ pc[c] = "start_scan"
    /\ \E ok \in BOOLEAN :
         /\ StartScanning(ok)
         /\ IF ok
            THEN Goto(c, IF config.Influx THEN "start_sink" ELSE "start_cas")
            ELSE Return(c, "DeviceError")
    /\ UNCHANGED <<config, recording, quitClosed, wg, panicked, ops, nsess,
                   loop, frameChan, stopWrites, flushes, sinkIds,
                   reg, tk, sig>>

\* a sink block entered with the flag already set, which an error leaves set
StartRecord_SinkFlagFirst(c) ==
    /\ ~panicked /\ pc[c] = "start_sink"
    /\ recording' = 1
    /\ IF config.InfluxOrgName = "" \/ config.InfluxBucketName = ""
       THEN Return(c, "ErrBlankInfluxOrgOrBucket")
       ELSE \E r \in {"ok", "ErrInvalidOrg", "BucketError"} :
              IF r = "ok" THEN Goto(c, "start_cas") ELSE Return(c, r)
    /\ UNCHANGED <<config, quitClosed, wg, panicked, scanning,
                   ops, nsess, loop, frameChan, stopWrites, flushes,
                   sinkIds, reg, tk, sig>>

\* the if e.config.Influx block: blank check, organization and bucket lookup
StartRecord_Sink(c) ==
    /\ ~panicked /\ pc[c] = "start_sink"
    /\ IF config.InfluxOrgName = "" \/ config.InfluxBucketName = ""
       THEN Return(c, "ErrBlankInfluxOrgOrBucket")
       ELSE \E r \in {"ok", "ErrInvalidOrg", "BucketError"} :
              IF r = "ok" THEN Goto(c, "start_cas") ELSE Return(c, r)
    /\ UNCHANGED <<config, recording, quitClosed, wg, panicked, scanning,
                   ops, nsess, loop, frameChan, stopWrites, flushes,
                   sinkIds, reg, tk, sig>>

StartRecord_Cas(c) ==
    /\ ~panicked /\ pc[c] = "start_cas"
    /\ IF CompareAndSwapOk(0)
       THEN /\ recording' = 1 /\ Goto(c, "start_go")
            /\ sig' = [sig EXCEPT !.cur = 0 - c]
       ELSE UNCHANGED <<recording, sig>> /\ Return(c, "ErrAlreadyRecording")
    /\ UNCHANGED <<config, quitClosed, wg, panicked, scanning, ops, nsess,
                   loop, frameChan, stopWrites, flushes, sinkIds,
                   reg, tk>>

\* the session caller c is about to start becomes the one of goroutine nsess + 1
Started(c, x) == IF x = 0 - c THEN nsess + 1 ELSE x

\* e.Add(1); go func() {...}(); return frameChan, nil
StartRecord_Go(c) ==
    /\ ~panicked /\ pc[c] = "start_go"
    /\ wg' = wg + 1
    /\ nsess' = nsess + 1
    /\ loop' = [loop EXCEPT ![nsess + 1] = [NoLoop EXCEPT !.pc = "sleep"]]
    /\ frameChan' = [frameChan EXCEPT ![nsess + 1] = "open"]
    /\ Return(c, "frameChan")
    /\ sig' = [cur |-> Started(c, sig.cur),
               target |-> [d \in Callers |-> Started(c, sig.target[d])]]
    /\ UNCHANGED <<config, recording, quitClosed, panicked, scanning, ops,
                   stopWrites, flushes, sinkIds, reg, tk>>

(***************************************************************************)
(* StopRecord: the compare-and-swap, then the send on the unbuffered       *)
(* e.quitChan, which completes only together with a goroutine receiving in *)
(* its select, and panics on a closed channel.  The receiving goroutine    *)
(* goes on to ticker.Stop().                                               *)
(***************************************************************************)
\* a StopRecord that sends its signal without looking at e.recording
StopRecord_NoCas(c) ==
    /\ ~panicked /\ pc[c] = "idle" /\ Invoked < MaxCalls
    /\ ops' = [ops EXCEPT !.stoprec = @ + 1]
    /\ Goto(c, "stoprec_send")
    /\ UNCHANGED <<config, recording, quitClosed, wg, panicked, scanning, nsess,
                   loop, frameChan, stopWrites, flushes, sinkIds, reg, tk, sig>>

\* a StopRecord that checks e.recording but leaves it at 1
StopRecord_KeepsFlag(c) ==
    /\ ~panicked /\ pc[c] = "idle" /\ Invoked < MaxCalls
    /\ ops' = [ops EXCEPT !.stoprec = @ + 1]
    /\ IF CompareAndSwapOk(1)
       THEN Goto(c, "stoprec_send")
       ELSE Return(c, "ErrAlreadyStoppedRecording")
    /\ UNCHANGED <<config, recording, quitClosed, wg, panicked, scanning, nsess,
                   loop, frameChan, stopWrites, flushes, sinkIds, reg, tk, sig>>

StopRecord_Cas(c) ==
    /\ ~panicked /\ pc[c] = "idle" /\ Invoked < MaxCalls
    /\ ops' = [ops EXCEPT !.stoprec = @ + 1]
    /\ IF CompareAndSwapOk(1)
       THEN /\ recording' = 0 /\ Goto(c, "stoprec_send")
            /\ sig' = [sig EXCEPT !.target[c] = sig.cur, !.cur = 0]
       ELSE UNCHANGED <<recording, sig>>
            /\ Return(c, "ErrAlreadyStoppedRecording")
    /\ UNCHANGED <<config, quitClosed, wg, panicked, scanning, nsess, loop,
                   frameChan, stopWrites, flushes, sinkIds, reg, tk>>

StopRecord_Send(c) ==
    /\ ~panicked /\ pc[c] = "stoprec_send"
    /\ IF quitClosed
       THEN /\ panicked' = TRUE
            /\ UNCHANGED <<pc, ret, loop, sig>>
       ELSE /\ \E s \in Sessions :
                 /\ loop[s].pc = "select"
                 /\ loop' = [loop EXCEPT ![s].pc = "stopscan", ![s].tstop = TRUE]
            /\ Return(c, "nil")
            /\ sig' = [sig EXCEPT !.target[c] = 0]
            /\ UNCHANGED panicked
    /\ UNCHANGED <<config, recording, quitClosed, wg, scanning, ops, nsess,
                   frameChan, stopWrites, flushes, sinkIds, reg, tk>>

(***************************************************************************)
(* Stop: close(e.quitChan), which panics if it is closed already, then     *)
(* e.Wait().                                                               *)
(***************************************************************************)
Stop_Close(c) ==
    /\ ~panicked /\ pc[c] = "idle" /\ Invoked < MaxCalls
    /\ ops' = [ops EXCEPT !.stop = @ + 1]
    /\ IF quitClosed
       THEN panicked' = TRUE /\ UNCHANGED <<quitClosed, pc, ret>>
       ELSE quitClosed' = TRUE /\ Goto(c, "stop_wait") /\ UNCHANGED panicked
    /\ UNCHANGED <<config, recording, wg, scanning, nsess, loop, frameChan,
                   stopWrites, flushes, sinkIds, reg, tk, sig>>

Stop_Wait(c) ==
    /\ ~panicked /\ pc[c] = "stop_wait"
    /\ wg = 0
    /\ Return(c, "nil")
    /\ UNCHANGED <<config, recording, quitClosed, wg, panicked, scanning,
                   ops, nsess, loop, frameChan, stopWrites, flushes,
                   sinkIds, reg, tk, sig>>

(***************************************************************************)
(* The background goroutine of a session, statement by statement.          *)
(***************************************************************************)
\* time.Sleep(1 * time.Second) is over
Loop_Wake(s) ==
    /\ ~panicked /\ loop[s].pc = "sleep"
    /\ loop' = [loop EXCEPT ![s].pc = "select"]
    /\ UNCHANGED <<config, recording, quitClosed, wg, panicked, scanning, pc,
                   ret, ops, nsess, frameChan, stopWrites, flushes, sinkIds, reg, tk, sig>>

\* case <-ticker.C: a tick of the running ticker is there and the goroutine
\* takes it and enters e.connection.ReadItems()
Loop_Tick(s) ==
    /\ ~panicked /\ loop[s].pc = "select" /\ ~loop[s].tstop
    /\ loop' = [loop EXCEPT ![s].pc = "read"]
    /\ UNCHANGED <<config, recording, quitClosed, wg, panicked, scanning, pc,
                   ret, ops, nsess, frameChan, stopWrites, flushes, sinkIds, reg, tk, sig>>

\* ReadItems returns; the range loop builds data and writes the points;
\* json.Marshal(&df): on an error the goroutine returns
Loop_Read(s) ==
    /\ ~panicked /\ loop[s].pc = "read"
    /\ \E read \in DeviceReads :
         LET r == ReadItems(TagMap, read)
             points == BuildPoints(config, r.readings)
             m == Marshal(BuildData(r.readings))
         IN IF r.panic
            THEN panicked' = TRUE /\ UNCHANGED <<loop, sinkIds>>
            ELSE /\ sinkIds' = sinkIds \cup {points[k].id : k \in 1..Len(points)}
                 /\ loop' = [loop EXCEPT
                               ![s].pc = IF m.err THEN "close" ELSE "send",
                               ![s].b = m.b]
                 /\ UNCHANGED panicked
    /\ UNCHANGED <<config, recording, quitClosed, wg, scanning, pc,
                   ret, ops, nsess, frameChan, stopWrites, flushes, reg, tk, sig>>

\* a send in a select with e.quitChan: the consumer receives, or the closed
\* control channel is seen and the frame dropped
Loop_SendOrQuit(s) ==
    /\ ~panicked /\ loop[s].pc = "send"
    /\ \/ loop' = [loop EXCEPT ![s].pc = "select", ![s].b = <<>>]
       \/ /\ quitClosed
          /\ loop' = [loop EXCEPT ![s].pc = "stopscan", ![s].tstop = TRUE,
                                  ![s].b = <<>>]
    /\ UNCHANGED <<config, recording, quitClosed, wg, panicked, scanning, pc,
                   ret, ops, nsess, frameChan, stopWrites, flushes, sinkIds,
                   reg, tk, sig>>

\* frameChan <- &proto.Frame{...}: completes when the consumer receives
Loop_Send(s) ==
    /\ ~panicked /\ loop[s].pc = "send"
    /\ loop' = [loop EXCEPT ![s].pc = "select", ![s].b = <<>>]
    /\ UNCHANGED <<config, recording, quitClosed, wg, panicked, scanning, pc,
                   ret, ops, nsess, frameChan, stopWrites, flushes, sinkIds,
                   reg, tk, sig>>

\* a quit branch that stops the ticker and returns
Loop_QuitClosedReturns(s) ==
    /\ ~panicked /\ loop[s].pc = "select" /\ quitClosed
    /\ loop' = [loop EXCEPT ![s].pc = "close", ![s].tstop = TRUE]
    /\ UNCHANGED <<config, recording, quitClosed, wg, panicked, scanning, pc,
                   ret, ops, nsess, frameChan, stopWrites, flushes, sinkIds, reg, tk, sig>>

\* case <-e.quitChan on the closed channel, then ticker.Stop()
Loop_QuitClosed(s) ==
    /\ ~panicked /\ loop[s].pc = "select" /\ quitClosed
    /\ loop' = [loop EXCEPT ![s].pc = "stopscan", ![s].tstop = TRUE]
    /\ UNCHANGED <<config, recording, quitClosed, wg, panicked, scanning, pc,
                   ret, ops, nsess, frameChan, stopWrites, flushes, sinkIds, reg, tk, sig>>

\* e.connection.StopScanning(); an error is logged
Loop_StopScanning(s) ==
    /\ ~panicked /\ loop[s].pc = "stopscan"
    /\ \E ok \in BOOLEAN : StopScanning(ok)
    /\ stopWrites' = [stopWrites EXCEPT ![s] = @ + 1]
    /\ loop' = [loop EXCEPT ![s].pc = IF config.Influx THEN "flush" ELSE "close"]
    /\ UNCHANGED <<config, recording, quitClosed, wg, panicked, pc, ret, ops,
                   nsess, frameChan, flushes, sinkIds, reg, tk, sig>>

\* writeAPI.Flush(); e.client.Close(); return
Loop_Flush(s) ==
    /\ ~panicked /\ loop[s].pc = "flush"
    /\ flushes' = [flushes EXCEPT ![s] = @ + 1]
    /\ loop' = [loop EXCEPT ![s].pc = "close"]
    /\ UNCHANGED <<config, recording, quitClosed, wg, panicked, scanning, pc,
                   ret, ops, nsess, frameChan, stopWrites, sinkIds,
                   reg, tk, sig>>

\* deferred close(frameChan)
Loop_CloseFrameChan(s) ==
    /\ ~panicked /\ loop[s].pc = "close"
    /\ frameChan' = [frameChan EXCEPT ![s] = "closed"]
    /\ loop' = [loop EXCEPT ![s].pc = "done"]
    /\ UNCHANGED <<config, recording, quitClosed, wg, panicked, scanning, pc,
                   ret, ops, nsess, stopWrites, flushes, sinkIds,
                   reg, tk, sig>>

\* deferred e.Done(): the goroutine is gone
Loop_Done(s) ==
    /\ ~panicked /\ loop[s].pc = "done"
    /\ wg' = wg - 1
    /\ loop' = [loop EXCEPT ![s].pc = "exited"]
    /\ UNCHANGED <<config, recording, quitClosed, panicked, scanning, pc,
                   ret, ops, nsess, frameChan, stopWrites, flushes, sinkIds, reg, tk, sig>>

Alive(s) == loop[s].pc \notin {"none", "exited"}

Next ==
    \/ \E c \in Callers : StartRecord_Load(c)
    \/ \E c \in Callers : StartRecord_Scan(c)
    \/ \E c \in Callers : StartRecord_Sink(c)
    \/ \E c \in Callers : StartRecord_Cas(c)
    \/ \E c \in Callers : StartRecord_Go(c)
    \/ \E c \in Callers : StopRecord_Cas(c)
    \/ \E c \in Callers : StopRecord_Send(c)
    \/ \E c \in Callers : Stop_Close(c)
    \/ \E c \in Callers : Stop_Wait(c)
    \/ \E s \in Sessions : Loop_Wake(s)
    \/ \E s \in Sessions : Loop_Tick(s)
    \/ \E s \in Sessions : Loop_Read(s)
    \/ \E s \in Sessions : Loop_Send(s)
    \/ \E s \in Sessions : Loop_QuitClosed(s)
    \/ \E s \in Sessions : Loop_StopScanning(s)
    \/ \E s \in Sessions : Loop_Flush(s)
    \/ \E s \in Sessions : Loop_CloseFrameChan(s)
    \/ \E s \in Sessions : Loop_Done(s)

Spec == Init /\ [][Next]_vars

(***************************************************************************)
(* Fairness.  The Go scheduler runs every runnable goroutine, the device   *)
(* and the sink answer, and a select with several ready cases picks each   *)
(* of them sooner or later: every step of a call in progress and of a      *)
(* background goroutine is taken if it stays (weak) or keeps becoming      *)
(* (strong, for the two receives of the select from e.quitChan) possible.  *)
(* Nothing obliges the host to make a call, nor the consumer to receive    *)
(* from a frame channel: Loop_Send carries no fairness.                    *)
(***************************************************************************)
Fairness ==
    /\ \A c \in Callers :
         /\ WF_vars(StartRecord_Scan(c))
         /\ WF_vars(StartRecord_Sink(c))
         /\ WF_vars(StartRecord_Cas(c))
         /\ WF_vars(StartRecord_Go(c))
         /\ SF_vars(StopRecord_Send(c))
         /\ WF_vars(Stop_Wait(c))
    /\ \A s \in Sessions :
         /\ WF_vars(Loop_Wake(s))
         /\ WF_vars(Loop_Read(s))
         /\ SF_vars(Loop_QuitClosed(s))
         /\ WF_vars(Loop_StopScanning(s))
         /\ WF_vars(Loop_Flush(s))
         /\ WF_vars(Loop_CloseFrameChan(s))
         /\ WF_vars(Loop_Done(s))

FairSpec == Spec /\ Fairness

(***************************************************************************)
(* Claims about the recording engine.                                      *)
(***************************************************************************)
NoStopCalled == ops.stoprec = 0 /\ ops.stop = 0

LiveLoops == {s \in Sessions : Alive(s)}

BlankSink ==
    config.Influx /\ (config.InfluxOrgName = "" \/ config.InfluxBucketName = "")

\* C1: when StartRecord calls race from Idle and nothing else is called, at
\* most one background loop is ever started, whatever the interleaving of the
\* loads, StartScanning calls and compare-and-swaps; and when exactly two
\* calls were made, by two callers, and both returned a frame channel or
\* ErrAlreadyRecording, exactly one returned the frame channel, the other
\* returned ErrAlreadyRecording, and exactly one loop was started.
C1_OneStartRecordWins ==
    NoStopCalled =>
      /\ nsess + Cardinality({c \in Callers : pc[c] = "start_go"}) <= 1
      /\ ( /\ ops.start = 2
           /\ Cardinality({c \in Callers : pc[c] = "idle" /\ ret[c] # "none"}) = 2
           /\ \A c \in Callers : pc[c] = "idle"
           /\ \A c \in Callers :
                ret[c] \in {"none", "frameChan", "ErrAlreadyRecording"} )
         => /\ nsess = 1
            /\ Cardinality({c \in Callers : ret[c] = "frameChan"}) = 1
            /\ Cardinality({c \in Callers : ret[c] = "ErrAlreadyRecording"}) = 1

\* two calls have both loaded 0, one has won and returned the frame channel,
\* the other is about to lose its compare-and-swap
C1_Witness ==
    /\ NoStopCalled /\ ops.start = 2 /\ nsess = 1
    /\ \E c, d \in Callers :
         /\ c # d
         /\ pc[c] = "start_cas"
         /\ pc[d] = "idle" /\ ret[d] = "frameChan"

\* C2: at most one background loop is alive in every reachable state: no
\* StartRecord succeeds while the previous session's loop is still on its way
\* through the device-level stop path.
C2_AtMostOneLiveLoop == Cardinality(LiveLoops) <= 1

\* C3: a StopRecord call made while the state is Idle returns
\* ErrAlreadyStoppedRecording in that same step (it never waits), sends no
\* stop signal, leaves the state Idle and creates no loop.
C3_StopRecordWhenIdle ==
    [][ (ops'.stoprec # ops.stoprec /\ recording = 0) =>
          /\ \E c \in Callers :
               /\ pc[c] = "idle"
               /\ ret' = [ret EXCEPT ![c] = "ErrAlreadyStoppedRecording"]
          /\ pc' = pc
          /\ recording' = 0
          /\ UNCHANGED <<loop, nsess, wg, quitClosed, frameChan, scanning,
                         panicked>> ]_vars

\* StopRecord has returned ErrAlreadyStoppedRecording before any StartRecord
C3_Witness ==
    /\ ops.start = 0 /\ ops.stoprec > 0 /\ nsess = 0 /\ recording = 0
    /\ \E c \in Callers :
         pc[c] = "idle" /\ ret[c] = "ErrAlreadyStoppedRecording"

\* C4: every Stop call that has closed the control channel eventually returns
\* (as long as no goroutine has panicked meanwhile, which is C7's matter),
\* whatever the loop is doing and whether or not the consumer receives; and
\* when it returns every session's output channel is closed and the device
\* has seen exactly one stop-scan write for each session.
C4_StopTerminates ==
    \A c \in Callers :
      (pc[c] = "stop_wait") ~>
        \/ panicked
        \/ /\ pc[c] = "idle"
           /\ \A s \in 1..nsess :
                frameChan[s] = "closed" /\ stopWrites[s] = 1

\* C5: with a sink configured and a blank organization or bucket name,
\* StartRecord never starts scanning: nothing is written to the control
\* channel, the state stays Idle and no loop is started.
C5_BlankSinkStartsNothing ==
    BlankSink => (~scanning /\ recording = 0 /\ nsess = 0)

\* C6: every StopRecord call that has passed its compare-and-swap returns,
\* without waiting on the frame consumer, whatever the loop is doing.
C6_StopRecordReturns ==
    \A c \in Callers : (pc[c] = "stoprec_send") ~> (pc[c] = "idle")

\* C7: with Stop called once, a StopRecord call that has passed its state
\* check and has its stop signal pending when Stop closes the control channel
\* does not crash the process.
C7_StopSafeWithPendingStopRecord ==
    (ops.stop <= 1 /\ \E c \in Callers : pc[c] = "stoprec_send") => ~panicked

(***************************************************************************)
(* Registry and tick runs: ConnectToDAQ builds the registry from any raw   *)
(* identifier list and any configured tag map, GetTagMapNames enumerates   *)
(* it, and one pass of the tick branch (ReadItems, the type switch, the    *)
(* points, json.Marshal) runs over it for any values read.  A tick needs a *)
(* session, and a session needs StartScanning to succeed, which writes to  *)
(* TagMap[0].tag: the tick runs take the registries that have index 0.     *)
(***************************************************************************)
RawIds == {"Mod1.Ch1", "Mod1.Ch2"}
TagLists == UNION {[1..n -> RawIds] : n \in 0..MaxTags}
CfgTags == {[Tag |-> "A", Type |-> "temperature"], [Tag |-> "B", Type |-> "ignore"]}
CfgIdxs == (0 - 1)..MaxTags
CfgTagMaps == UNION {[S -> CfgTags] : S \in SUBSET CfgIdxs}

RegInit ==
    /\ EngineInit
    /\ tk = TkOff
    /\ config.Influx => config.InfluxOrgName # "" /\ config.InfluxBucketName # ""
    /\ \E tags \in TagLists, cfgTags \in CfgTagMaps :
         reg = [RegIdle EXCEPT !.pc = "connect", !.tags = tags, !.cfg = cfgTags]

\* ConnectToDAQ: TagMap: createTagMap(tags, cfgTags)
Reg_Connect ==
    /\ reg.pc = "connect"
    /\ LET r == createTagMap(reg.tags, reg.cfg)
       IN reg' = IF r.panic
                 THEN [reg EXCEPT !.pc = "panic"]
                 ELSE [reg EXCEPT !.pc = "connected", !.tagMap = r.tagMap]
    /\ UNCHANGED <<engineVars, tk>>

Reg_GetTagMapNames ==
    /\ reg.pc = "connected"
    /\ LET r == GetTagMapNames(reg.tagMap)
       IN reg' = IF r.panic
                 THEN [reg EXCEPT !.pc = "names_panic"]
                 ELSE [reg EXCEPT !.pc = "named", !.names = r.names]
    /\ UNCHANGED <<engineVars, tk>>

\* one pass of case <-ticker.C, up to json.Marshal
Reg_Tick ==
    /\ reg.pc = "named"
    /\ 0 \in DOMAIN reg.tagMap
    /\ \E read \in [DataIdxs(reg.tagMap) -> Items] :
         LET r == ReadItems(reg.tagMap, read)
             data == BuildData(r.readings)
         IN reg' = IF r.panic
                   THEN [reg EXCEPT !.pc = "tick_panic"]
                   ELSE [reg EXCEPT !.pc = "ticked",
                                    !.read = read,
                                    !.readings = r.readings,
                                    !.data = data,
                                    !.points = BuildPoints(config, r.readings),
                                    !.m = Marshal(data)]
    /\ UNCHANGED <<engineVars, tk>>

RegNext == Reg_Connect \/ Reg_GetTagMapNames \/ Reg_Tick

RegSpec == RegInit /\ [][RegNext]_vars

(***************************************************************************)
(* Claims about the tick branch and the registry.                          *)
(***************************************************************************)
\* the mapped channels other than 0 whose value read is a float32 or a
\* float64, by ascending index
RECURSIVE Ascending(_)
Ascending(S) ==
    IF S = {} THEN <<>>
    ELSE LET m == CHOOSE x \in S : \A y \in S : x <= y
         IN <<m>> \o Ascending(S \ {m})

FloatChannels ==
    Ascending({i \in DOMAIN reg.tagMap \ {0} :
                 reg.read[i].kind \in {"float32", "float64"}})

SinkChannels ==
    SelectSeq(FloatChannels, LAMBDA i : reg.tagMap[i].tagType # "ignore")

\* C8: on every tick the frame has one entry, in index order, for every mapped
\* channel with a numeric reading, whatever its semantic type; with a sink
\* configured the points written on that tick are exactly one per numeric
\* channel whose type is not "ignore", tagged with its display name, and none
\* for an "ignore" channel; with no sink configured no point is written.
C8_IgnoreKeepsFrameSkipsSink ==
    reg.pc = "ticked" =>
      /\ Len(reg.data) = Len(FloatChannels)
      /\ \A k \in 1..Len(FloatChannels) :
           reg.data[k].Name = reg.tagMap[FloatChannels[k]].name
      /\ config.Influx =>
           /\ Len(reg.points) = Len(SinkChannels)
           /\ \A k \in 1..Len(SinkChannels) :
                /\ reg.points[k].id = reg.tagMap[SinkChannels[k]].name
                /\ reg.points[k].measurement # "ignore"
      /\ ~config.Influx => reg.points = <<>>

\* a tick with a sink, a numeric "ignore" channel and a numeric channel of
\* another type, whose frame is delivered
C8_Witness ==
    /\ reg.pc = "ticked" /\ config.Influx /\ ~reg.m.err
    /\ \E i, j \in DOMAIN reg.tagMap \ {0} :
         /\ reg.tagMap[i].tagType = "ignore"
         /\ reg.tagMap[j].tagType # "ignore"
         /\ reg.read[i].kind \in {"float32", "float64"}
         /\ reg.read[j].kind \in {"float32", "float64"}
    /\ Len(reg.points) < Len(reg.data)

\* C9: for every assignment of values to the mapped channels, the frame that
\* is serialized has exactly one {name, value} entry for each mapped channel
\* other than 0 whose value is a float32 or a float64, in ascending index
\* order, with the value as a float64; the other channels are left out, and
\* unless a float value is not finite the frame serializes without an error.
C9_FrameIsTheFloatChannels ==
    reg.pc = "ticked" =>
      /\ (\A i \in DOMAIN reg.tagMap \ {0} :
            reg.read[i].kind \in {"float32", "float64"} => reg.read[i].finite)
           => ~reg.m.err
      /\ ~reg.m.err =>
           /\ Len(reg.m.b) = Len(FloatChannels)
           /\ \A k \in 1..Len(FloatChannels) :
                /\ reg.m.b[k].name = reg.tagMap[FloatChannels[k]].name
                /\ reg.m.b[k].value = reg.read[FloatChannels[k]].val

\* a delivered frame of a tick on which one channel gave a float32, a higher
\* one a float64 and another one something that is not a number
C9_Witness ==
    /\ reg.pc = "ticked" /\ ~reg.m.err
    /\ \E i, j, k \in DOMAIN reg.tagMap \ {0} :
         /\ i < j
         /\ reg.read[i].kind = "float32"
         /\ reg.read[j].kind = "float64"
         /\ reg.read[k].kind = "string"
    /\ Len(reg.m.b) = 2

\* C10: for every raw identifier list and every configured tag map whose
\* indices are in range, the registry has exactly the configured indices as
\* keys, each descriptor carries the configured name and type and the raw
\* identifier at its index, and GetTagMapNames returns the display names of
\* the indices other than 0 by ascending index.
C10_RegistryAndNames ==
    LET inRange == \A i \in DOMAIN reg.cfg : 0 <= i /\ i < Len(reg.tags)
        others == Ascending(DOMAIN reg.cfg \ {0})
    IN (reg.pc \notin {"off", "connect"} /\ inRange) =>
         /\ reg.pc # "panic"
         /\ DOMAIN reg.tagMap = DOMAIN reg.cfg
         /\ \A i \in DOMAIN reg.cfg :
              reg.tagMap[i] = [name |-> reg.cfg[i].Tag,
                               tag |-> reg.tags[i + 1],
                               tagType |-> reg.cfg[i].Type]
         /\ reg.pc # "connected" =>
              /\ reg.pc # "names_panic"
              /\ Len(reg.names) = Len(others)
              /\ \A k \in 1..Len(others) : reg.names[k] = reg.cfg[others[k]].Tag

\* C11: when a configured index is negative or not smaller than the length of
\* the raw identifier list, building the registry does not crash on the
\* out-of-range position of the list (it is never read) and produces no
\* registry: the caller gets an error back.
C11_OutOfRangeIndexIsRefused ==
    LET outOfRange == \E i \in DOMAIN reg.cfg : i < 0 \/ i >= Len(reg.tags)
    IN (outOfRange /\ reg.pc \notin {"off", "connect"}) =>
         /\ reg.pc # "panic"
         /\ reg.pc \notin {"connected", "named", "ticked"}
         /\ reg.tagMap = <<>>

(***************************************************************************)
(* More claims about the recording engine.                                 *)
(***************************************************************************)
\* every session started so far was ended by a stop signal of StopRecord and
\* its goroutine is gone, and no StartRecord call is past its swap
Quiescent ==
    /\ nsess >= 1 /\ ops.stop = 0 /\ ~panicked
    /\ \A s \in 1..nsess : loop[s].pc = "exited" /\ stopWrites[s] = 1
    /\ \A c \in Callers : pc[c] # "start_go"

\* C12: the cycle is repeatable.  Once every session so far has been started
\* and then stopped by a StopRecord whose signal its loop received, and the
\* loop has exited, the state is Idle again; a StartRecord made then is not
\* refused at its load nor at its compare-and-swap, which sets the state to
\* Recording; and the call then starts a fresh goroutine with a fresh open
\* frame channel, which it returns, leaving the old channels closed.
C12_CycleRepeats ==
    /\ [](Quiescent => recording = 0)
    /\ [][ /\ (Quiescent /\ ops'.start # ops.start) =>
                \E c \in Callers : pc[c] = "idle" /\ pc'[c] = "start_scan"
           /\ \A c \in Callers :
                (Quiescent /\ pc[c] = "start_cas" /\ pc'[c] # "start_cas") =>
                   recording' = 1 /\ pc'[c] = "start_go"
           /\ \A c \in Callers :
                (pc[c] = "start_go" /\ pc'[c] # "start_go" /\ nsess >= 1) =>
                   /\ ret'[c] = "frameChan"
                   /\ nsess' = nsess + 1
                   /\ loop'[nsess'].pc = "sleep"
                   /\ frameChan'[nsess'] = "open"
                   /\ \A s \in 1..nsess : frameChan'[s] = frameChan[s]
         ]_vars

\* the first session was stopped by StopRecord and its loop is gone; the
\* second session, with a sink, has read the device, written its points and
\* has a frame on its channel
C12_Witness ==
    /\ nsess = 2 /\ ops.stop = 0 /\ recording = 1
    /\ loop[1].pc = "exited" /\ stopWrites[1] = 1 /\ frameChan[1] = "closed"
    /\ loop[2].pc = "send" /\ Len(loop[2].b) > 0 /\ frameChan[2] = "open"
    /\ config.Influx /\ sinkIds # {}

(***************************************************************************)
(* Timed runs of one session, in discrete time units.  StartRecord creates *)
(* the ticker with time.NewTicker(defaultPolInterval), spends some time in *)
(* its sink block and starts the goroutine, which sleeps for the warm-up   *)
(* and then loops on the select.  The ticker fires every defaultPolInterval*)
(* after its creation into ticker.C, a channel that holds one tick: a      *)
(* firing that finds it full is dropped.  ReadItems takes some time to     *)
(* return, and the consumer some time to receive the frame.  Time advances *)
(* only when nothing is due at the present instant.                        *)
(***************************************************************************)
defaultPolInterval == 5   \* time units
WarmUp == 1               \* time.Sleep(1 * time.Second) in the same unit
MaxSetup == 1             \* longest time from NewTicker to the go statement
MaxLatency == 4           \* longest time ReadItems takes
MaxDelay == 2             \* longest time the consumer takes to receive
MaxTime == 16             \* horizon of a timed run

TickInit ==
    /\ EngineInit
    /\ reg = RegIdle
    /\ tk = [TkOff EXCEPT !.pc = "start"]

\* ticker := time.NewTicker(defaultPolInterval) ... go func() { time.Sleep
Tk_StartRecord ==
    /\ tk.pc = "start"
    /\ \E setup \in 0..MaxSetup :
         tk' = [tk EXCEPT !.pc = "sleep",
                          !.fire = tk.now + defaultPolInterval,
                          !.began = tk.now + setup,
                          !.wake = tk.now + setup + WarmUp]
    /\ UNCHANGED <<engineVars, reg>>

\* the runtime's ticker fires: a tick is put in ticker.C unless one is there
Tk_Fire ==
    /\ tk.pc \notin {"off", "start"} /\ tk.now = tk.fire
    /\ tk' = [tk EXCEPT !.buf = TRUE, !.fire = tk.fire + defaultPolInterval]
    /\ UNCHANGED <<engineVars, reg>>

\* time.Sleep returns
Tk_Wake ==
    /\ tk.pc = "sleep" /\ tk.now = tk.wake
    /\ tk' = [tk EXCEPT !.pc = "select"]
    /\ UNCHANGED <<engineVars, reg>>

\* case <-ticker.C, then e.connection.ReadItems() is under way
Tk_Tick ==
    /\ tk.pc = "select" /\ tk.buf
    /\ \E latency \in 0..MaxLatency :
         tk' = [tk EXCEPT !.pc = "read", !.buf = FALSE,
                          !.wake = tk.now + latency]
    /\ UNCHANGED <<engineVars, reg>>

\* ReadItems has returned, the frame is built and offered on frameChan
Tk_Read ==
    /\ tk.pc = "read" /\ tk.now = tk.wake
    /\ \E delay \in 0..MaxDelay :
         tk' = [tk EXCEPT !.pc = "send", !.wake = tk.now + delay]
    /\ UNCHANGED <<engineVars, reg>>

\* the consumer receives the frame: frameChan <- returns
Tk_Send ==
    /\ tk.pc = "send" /\ tk.now = tk.wake
    /\ tk' = [tk EXCEPT !.pc = "select", !.n = tk.n + 1,
                        !.prev = tk.last, !.last = tk.now]
    /\ UNCHANGED <<engineVars, reg>>

\* a time unit passes
Tk_Advance ==
    /\ tk.pc \notin {"off", "start"} /\ tk.now < MaxTime
    /\ tk.now < tk.fire
    /\ IF tk.pc = "select" THEN ~tk.buf ELSE tk.now < tk.wake
    /\ tk' = [tk EXCEPT !.now = tk.now + 1]
    /\ UNCHANGED <<engineVars, reg>>

TickNext ==
    \/ Tk_StartRecord
    \/ Tk_Fire
    \/ Tk_Wake
    \/ Tk_Tick
    \/ Tk_Read
    \/ Tk_Send
    \/ Tk_Advance

TickSpec == TickInit /\ [][TickNext]_vars

\* C13: with the 5-unit ticker and a consumer that receives every frame, two
\* consecutive frame deliveries of a session are never less than the interval
\* apart, whatever the ReadItems latencies and consumer delays, and no frame
\* is delivered before the warm-up delay of the goroutine has elapsed.
C13_TickCadence ==
    /\ tk.n >= 2 => tk.last - tk.prev >= defaultPolInterval
    /\ tk.n >= 1 => tk.last >= tk.began + WarmUp

\* C14: a background loop that is past its work (about to close its frame
\* channel, or gone), whatever made it terminate, has called StopScanning on
\* the device and, with a sink configured, has flushed the sink.
C14_EveryExitStopsAndFlushes ==
    \A s \in Sessions :
      loop[s].pc \in {"close", "done", "exited"} =>
        /\ stopWrites[s] >= 1
        /\ config.Influx => flushes[s] >= 1

\* the step in which caller c's StartRecord returns an error after its load
StartRecordFails(c) ==
    pc[c] \in {"start_scan", "start_sink", "start_cas"} /\ pc'[c] = "idle"

\* the step in which a StartRecord is refused at its load
StartRecordRefused == ops'.start # ops.start /\ pc' = pc

\* C15: a StartRecord call that returns an error (already recording, device
\* error of StartScanning, blank organization or bucket, organization or
\* bucket failure, lost compare-and-swap) returns no frame channel and, in
\* returning, leaves the session flag as it is and starts no goroutine; and
\* the flag goes from 0 to 1 only in the compare-and-swap of a call that has
\* passed StartScanning and the sink block.
C15_FailedStartChangesNothing ==
    [][ /\ \A c \in Callers :
             StartRecordFails(c) =>
               /\ ret'[c] \in {"ErrAlreadyRecording", "DeviceError",
                               "ErrBlankInfluxOrgOrBucket", "ErrInvalidOrg",
                               "BucketError"}
               /\ UNCHANGED <<recording, nsess, loop, wg, frameChan>>
        /\ StartRecordRefused =>
             /\ \E c \in Callers :
                  /\ pc[c] = "idle"
                  /\ ret' = [ret EXCEPT ![c] = "ErrAlreadyRecording"]
             /\ UNCHANGED <<recording, nsess, loop, wg, frameChan>>
        /\ (recording = 0 /\ recording' = 1) =>
             \E c \in Callers : pc[c] = "start_cas" /\ pc'[c] = "start_go"
        /\ \A c \in Callers :
             (pc[c] \in {"start_scan", "start_sink"} /\ pc'[c] # pc[c]) =>
                recording' = recording
      ]_vars

\* a call that loaded 0 before another call won has failed in its sink block
\* while the winner's session runs: the flag is still 1, the loop still alive
C15_Witness ==
    \E c, d \in Callers :
      /\ c # d
      /\ pc[c] = "idle" /\ ret[c] = "ErrInvalidOrg"
      /\ pc[d] = "idle" /\ ret[d] = "frameChan"
      /\ ops.start = 2 /\ nsess = 1 /\ recording = 1 /\ Alive(1)

\* C16: a StartRecord called while the flag is 1 returns ErrAlreadyRecording
\* in that same step and changes nothing else: nothing is written to the
\* device, no sink call is made, no goroutine or channel is created, the flag
\* stays 1 and the running goroutine and its frame channel are as they were.
C16_StartWhileRecording ==
    [][ (ops'.start # ops.start /\ recording = 1) =>
          /\ \E c \in Callers :
               /\ pc[c] = "idle"
               /\ ret' = [ret EXCEPT ![c] = "ErrAlreadyRecording"]
          /\ pc' = pc
          /\ recording' = 1
          /\ UNCHANGED <<scanning, nsess, loop, wg, frameChan, sinkIds,
                         flushes, stopWrites, quitClosed, panicked, config>>
      ]_vars

\* with the session's loop holding a frame for the consumer and no call in
\* flight, a StartRecord has been refused
C16_Witness ==
    /\ recording = 1 /\ nsess = 1 /\ loop[1].pc = "send" /\ scanning
    /\ ops.start >= 2 /\ ops.stoprec = 0 /\ ops.stop = 0
    /\ \A c \in Callers : pc[c] = "idle"
    /\ \E c \in Callers : ret[c] = "ErrAlreadyRecording"

\* what a goroutine that has received a stop signal has done so far, by its
\* position: <<StopScanning calls, Flush calls, state of its frame channel>>
ShutdownDone(p) ==
    CASE p = "stopscan" -> <<0, 0, "open">>
      [] p = "flush" -> <<1, 0, "open">>
      [] p = "close" -> <<1, IF config.Influx THEN 1 ELSE 0, "open">>
      [] OTHER -> <<1, IF config.Influx THEN 1 ELSE 0, "closed">>

\* C17: a loop that has received a stop signal (its ticker is stopped) goes
\* through StopScanning, then with a sink Flush and Close, then the close of
\* its frame channel, then its exit, in this order and whether or not the
\* StopScanning write succeeded; so its frame channel is never closed before
\* StopScanning was called and the sink flushed; and a Stop call returns from
\* its wait only when every frame channel created so far is closed.
C17_ShutdownOrdering ==
    /\ [](\A s \in Sessions :
            loop[s].tstop =>
              /\ loop[s].pc \in {"stopscan", "flush", "close", "done", "exited"}
              /\ <<stopWrites[s], flushes[s], frameChan[s]>>
                   = ShutdownDone(loop[s].pc))
    /\ [][ /\ \A s \in Sessions :
                (loop[s].tstop /\ loop'[s].pc # loop[s].pc) =>
                   <<loop[s].pc, loop'[s].pc>> \in
                      {<<"stopscan", IF config.Influx THEN "flush" ELSE "close">>,
                       <<"flush", "close">>, <<"close", "done">>,
                       <<"done", "exited">>}
           /\ \A c \in Callers :
                (pc[c] = "stop_wait" /\ pc'[c] = "idle") =>
                   \A s \in 1..nsess : frameChan[s] = "closed"
         ]_vars

\* Stop has returned after the only session, with a sink, went through its
\* shutdown with a StopScanning write that failed: the device still scans,
\* the sink is flushed, the channel closed
C17_Witness ==
    /\ ops.start = 1 /\ ops.stop = 1 /\ nsess = 1 /\ config.Influx
    /\ loop[1].tstop /\ loop[1].pc = "exited"
    /\ scanning /\ stopWrites[1] = 1 /\ flushes[1] = 1
    /\ frameChan[1] = "closed"
    /\ \E c \in Callers : pc[c] = "idle" /\ ret[c] = "nil"

\* C18: the loop loses and reorders no frame.  A goroutine holds a frame only
\* while it is blocked in the send on its open channel; from there its only
\* step is the consumer's receive, which takes the frame and brings it back
\* to the select with its ticker as it was: a stop signal is not acted on in
\* between.  ReadItems is entered from the select only, with no frame held.
\* Once the channel is closed the goroutine sends nothing and stays at its
\* exit.
C18_NoFrameLost ==
    /\ [](\A s \in Sessions :
            /\ loop[s].b # <<>> => loop[s].pc = "send"
            /\ loop[s].pc = "send" => frameChan[s] = "open"
            /\ frameChan[s] = "closed" => loop[s].pc \in {"done", "exited"})
    /\ [][ \A s \in Sessions :
             /\ (loop[s].pc = "send" /\ loop'[s] # loop[s]) =>
                  /\ loop'[s] = [loop[s] EXCEPT !.pc = "select", !.b = <<>>]
                  /\ frameChan'[s] = "open"
             /\ (loop'[s].pc = "read" /\ loop[s].pc # "read") =>
                  loop[s].pc = "select" /\ loop[s].b = <<>>
             /\ frameChan[s] = "closed" =>
                  /\ frameChan'[s] = "closed"
                  /\ loop'[s].pc \in {"done", "exited"}
                  /\ loop'[s].b = <<>>
         ]_vars

\* Stop has closed the control channel and waits while the loop, which has
\* not seen it, holds a frame for the consumer
C18_Witness ==
    /\ quitClosed /\ nsess = 1
    /\ loop[1].pc = "send" /\ loop[1].b # <<>> /\ ~loop[1].tstop
    /\ frameChan[1] = "open"
    /\ \E c \in Callers : pc[c] = "stop_wait"

\* C19: the device and the sink have one owner at a time.  A public method
\* makes its device write (StartScanning) or its sink calls only while no
\* background goroutine is alive, and at most one goroutine is inside
\* ReadItems in any state.
C19_ExclusiveOwnership ==
    /\ [](Cardinality({s \in Sessions : loop[s].pc = "read"}) <= 1)
    /\ [][ \A c \in Callers :
             ( /\ pc[c] \in {"start_scan", "start_sink"}
               /\ pc'[c] # pc[c]
               /\ ~(pc[c] = "start_sink" /\ BlankSink) )
             => LiveLoops = {}
         ]_vars

\* C20: while a session is live and its loop has not received a stop signal
\* (it sleeps, waits in its select, reads the device or holds a frame), the
\* last value written to the device control channel is true: no StopScanning
\* of an earlier session's teardown lands after its StartScanning.
C20_LiveSessionScans ==
    \A s \in Sessions :
      loop[s].pc \in {"sleep", "select", "read", "send"} => scanning

\* C21: the session flag agrees with the loop.  In every state of the running
\* process in which no StartRecord, StopRecord or Stop call is in progress,
\* e.recording is 1 if and only if exactly one background goroutine is alive.
C21_FlagAgreesWithLoop ==
    (~panicked /\ \A c \in Callers : pc[c] = "idle") =>
      (recording = 1 <=> Cardinality(LiveLoops) = 1)

\* C22: stop signals are matched to sessions.  With StartRecord and
\* StopRecord calls only, the stop signals sent or waiting to be sent are
\* never more than the StartRecord calls that have won their compare-and-swap;
\* and the signal of a StopRecord is taken by the goroutine of the session
\* that was Recording when that StopRecord passed its compare-and-swap.
C22_SignalsMatchSessions ==
    /\ [](ops.stop = 0 =>
            Cardinality({c \in Callers : pc[c] = "stoprec_send"})
              + Cardinality({s \in Sessions : loop[s].tstop})
            <= nsess + Cardinality({c \in Callers : pc[c] = "start_go"}))
    /\ [][ \A c \in Callers :
             (pc[c] = "stoprec_send" /\ pc'[c] = "idle") =>
                /\ sig.target[c] \in Sessions
                /\ loop[sig.target[c]].pc = "select"
                /\ loop'[sig.target[c]].pc = "stopscan"
         ]_vars
====
